---- MODULE Spec2Model ----
(***************************************************************************)
(* Fuzzy C-Means (src/src/fcm.py): the fit loop of class FCM and the pure  *)
(* functions it calls, over a model of the mpmath numeric layer.           *)
(*                                                                         *)
(* Numbers.  The code computes with mpf at mp.dps = 400 significant        *)
(* digits.  Here an mpf is a non-negative fixed-point number with Limbs    *)
(* fractional limbs of base Base, held as a little-endian sequence of      *)
(* limbs without leading zero limbs (<<>> is 0).  Every operation computes *)
(* the exact result and truncates it to that precision, as mpf rounds      *)
(* every result to its working precision.  All inputs of the model are     *)
(* non-negative, so the only signed quantity of the code, a difference     *)
(* that is squared at once, is held by its magnitude.                      *)
(***************************************************************************)
EXTENDS Integers, Sequences, FiniteSets, TLC

Base == 10000
Limbs == 3

Min(a, b) == IF a < b THEN a ELSE b
Max(a, b) == IF a < b THEN b ELSE a

(***************************************************************************)
(* Natural numbers of any size, as limb sequences.                         *)
(***************************************************************************)
RECURSIVE Strip(_)
Strip(s) ==
    IF s = <<>> THEN s
    ELSE IF s[Len(s)] = 0 THEN Strip(SubSeq(s, 1, Len(s) - 1)) ELSE s

Limb(s, i) == IF i <= Len(s) THEN s[i] ELSE 0

Zeros(n) == [i \in 1..n |-> 0]

ShiftUp(s, n) == IF s = <<>> THEN s ELSE Zeros(n) \o s

ShiftDown(s, n) == IF Len(s) <= n THEN <<>> ELSE SubSeq(s, n + 1, Len(s))

RECURSIVE NatLimbs(_)
NatLimbs(n) == IF n = 0 THEN <<>> ELSE <<n % Base>> \o NatLimbs(n \div Base)

RECURSIVE AddFrom(_, _, _, _)
AddFrom(a, b, i, c) ==
    IF i > Len(a) /\ i > Len(b)
    THEN IF c = 0 THEN <<>> ELSE <<c>>
    ELSE LET t == Limb(a, i) + Limb(b, i) + c
         IN  <<t % Base>> \o AddFrom(a, b, i + 1, t \div Base)

NAdd(a, b) == AddFrom(a, b, 1, 0)

RECURSIVE CmpFrom(_, _, _)
CmpFrom(a, b, i) ==
    IF i = 0 THEN 0
    ELSE IF a[i] < b[i] THEN -1
    ELSE IF a[i] > b[i] THEN 1
    ELSE CmpFrom(a, b, i - 1)

\* -1, 0 or 1 as a < b, a = b or a > b
NCmp(a, b) ==
    IF Len(a) < Len(b) THEN -1
    ELSE IF Len(a) > Len(b) THEN 1
    ELSE CmpFrom(a, b, Len(a))

NLess(a, b) == NCmp(a, b) < 0

NLeq(a, b) == NCmp(a, b) <= 0

RECURSIVE SubFrom(_, _, _, _)
SubFrom(a, b, i, br) ==
    IF i > Len(a) THEN <<>>
    ELSE LET t == a[i] - Limb(b, i) - br
         IN  IF t < 0 THEN <<t + Base>> \o SubFrom(a, b, i + 1, 1)
                      ELSE <<t>> \o SubFrom(a, b, i + 1, 0)

\* a - b, for a >= b
NSub(a, b) == Strip(SubFrom(a, b, 1, 0))

\* |a - b|
NAbsDiff(a, b) == IF NLess(a, b) THEN NSub(b, a) ELSE NSub(a, b)

RECURSIVE MulSmallFrom(_, _, _, _)
MulSmallFrom(a, m, i, c) ==
    IF i > Len(a)
    THEN IF c = 0 THEN <<>> ELSE <<c>>
    ELSE LET t == a[i] * m + c
         IN  <<t % Base>> \o MulSmallFrom(a, m, i + 1, t \div Base)

\* a * m, for a limb m
NMulSmall(a, m) == IF m = 0 THEN <<>> ELSE MulSmallFrom(a, m, 1, 0)

RECURSIVE MulFrom(_, _, _)
MulFrom(a, b, i) ==
    IF i > Len(b) THEN <<>>
    ELSE NAdd(NMulSmall(a, b[i]), ShiftUp(MulFrom(a, b, i + 1), 1))

NMul(a, b) == IF a = <<>> \/ b = <<>> THEN <<>> ELSE MulFrom(a, b, 1)

\* the largest q in lo..hi with b * q <= r, given that b * lo <= r
RECURSIVE QDigit(_, _, _, _)
QDigit(r, b, lo, hi) ==
    IF lo >= hi THEN lo
    ELSE LET mid == (lo + hi + 1) \div 2
         IN  IF NLeq(NMulSmall(b, mid), r)
             THEN QDigit(r, b, mid, hi)
             ELSE QDigit(r, b, lo, mid - 1)

\* one step of long division: the quotient limb of r by b, for r < b * Base.
\* The limbs of r from b's top limb upwards bracket the quotient.
QuotLimb(r, b) ==
    LET n == Len(b)
        t == Limb(r, n) + Limb(r, n + 1) * Base
    IN  QDigit(r, b, t \div (b[n] + 1), Min(Base - 1, t \div b[n]))

RECURSIVE DivFrom(_, _, _, _)
DivFrom(a, b, i, r) ==
    IF i = 0 THEN <<>>
    ELSE LET r1 == Strip(<<a[i]>> \o r)
             q  == QuotLimb(r1, b)
         IN  DivFrom(a, b, i - 1, NSub(r1, NMulSmall(b, q))) \o <<q>>

\* floor(a / b), for b # 0
NDiv(a, b) == Strip(DivFrom(a, b, Len(a), <<>>))

\* the largest d in lo..hi with (s + d * Base^(i-1))^2 <= a
RECURSIVE SqrtDigit(_, _, _, _, _)
SqrtDigit(a, s, i, lo, hi) ==
    IF lo >= hi THEN lo
    ELSE LET mid == (lo + hi + 1) \div 2
             c   == NAdd(s, Zeros(i - 1) \o <<mid>>)
         IN  IF NLeq(NMul(c, c), a)
             THEN SqrtDigit(a, s, i, mid, hi)
             ELSE SqrtDigit(a, s, i, lo, mid - 1)

RECURSIVE SqrtFrom(_, _, _)
SqrtFrom(a, s, i) ==
    IF i = 0 THEN s
    ELSE LET d == SqrtDigit(a, s, i, 0, Base - 1)
         IN  SqrtFrom(a, IF d = 0 THEN s ELSE NAdd(s, Zeros(i - 1) \o <<d>>), i - 1)

\* floor(sqrt(a))
NSqrt(a) == SqrtFrom(a, <<>>, (Len(a) + 1) \div 2)

(***************************************************************************)
(* mpf values: fixed-point numbers, value = limbs / Base^Limbs.            *)
(***************************************************************************)
Zero == <<>>

One == ShiftUp(<<1>>, Limbs)

IsZero(a) == a = <<>>

\* mpf(n) for a non-negative integer n
MpfInt(n) == ShiftUp(NatLimbs(n), Limbs)

\* mpf(str(x)) for the decimal literal x = lit[1] / lit[2]
MpfStr(lit) == NDiv(ShiftUp(NatLimbs(lit[1]), Limbs), NatLimbs(lit[2]))

FAdd(a, b) == NAdd(a, b)

FLess(a, b) == NLess(a, b)

FMul(a, b) == ShiftDown(NMul(a, b), Limbs)

\* mpmath.fdiv(a, b), for b # 0 (b = 0 raises ZeroDivisionError)
FDiv(a, b) == NDiv(ShiftUp(a, Limbs), b)

\* (a - b) ** mpf(2)
SqDiff(a, b) == LET d == NAbsDiff(a, b) IN FMul(d, d)

RECURSIVE FPowNat(_, _)
FPowNat(a, n) == IF n = 0 THEN One ELSE FMul(FPowNat(a, n - 1), a)

\* whether a ** n raises ZeroDivisionError: a zero base under a negative exponent
PowRaises(a, n) == n < 0 /\ IsZero(a)

\* mpmath.power(a, n) and a ** n for an integer exponent n, defined unless
\* PowRaises.  A negative power is taken of the reciprocal, which a fixed-point
\* number holds without underflow.
FPow(a, n) == IF n >= 0 THEN FPowNat(a, n) ELSE FPowNat(FDiv(One, a), -n)

\* mpmath.sqrt(a)
FSqrt(a) == NSqrt(ShiftUp(a, Limbs))

RECURSIVE SumTo(_, _)
SumTo(f, n) == IF n = 0 THEN Zero ELSE FAdd(SumTo(f, n - 1), f[n])

\* np.sum / mpmath.fsum of a sequence of mpf values
FSum(f) == SumTo(f, Len(f))

(***************************************************************************)
(* Matrices are sequences of rows; a row is a sequence of mpf values.      *)
(***************************************************************************)
Rows(m) == Len(m)

Cols(m) == IF m = <<>> THEN 0 ELSE Len(m[1])

\* m.T
Transpose(m) == [c \in 1..Cols(m) |-> [r \in 1..Rows(m) |-> m[r][c]]]

\* np.vectorize(lambda x: mpf(str(x)))(m): a fresh matrix of mpf values
to_bigfloat(m) == [r \in 1..Rows(m) |-> [c \in 1..Cols(m) |-> MpfStr(m[r][c])]]

\* the squared Euclidean distance of two points of equal dimension
calculate_euclidean_distance(x, y) ==
    FSum([d \in 1..Len(x) |-> SqDiff(x[d], y[d])])

\* the sum of the squared differences, the square root left out
matrix_norm_squared(x, y) ==
    FSum([i \in 1..Rows(x) |->
            FSum([j \in 1..Cols(x) |-> SqDiff(x[i][j], y[i][j])])])

\* sqrt of the sum of the squared differences of two matrices of equal shape
matrix_norm(x, y) ==
    FSqrt(FSum([r \in 1..Rows(x) |->
                  FSum([c \in 1..Cols(x) |-> SqDiff(x[r][c], y[r][c])])]))

\* distances[k][i]: point k to center i, one row per point, one column per center
calculate_distances(data, centers) ==
    [k \in 1..Rows(data) |->
        [i \in 1..Rows(centers) |->
            calculate_euclidean_distance(data[k], centers[i])]]

IsClose_rel_tol_inv == 1000000000

\* math.isclose(x, 1.0): |x - 1| <= 1e-9 * max(|x|, 1)
IsCloseToOne(x) ==
    LET tol == NDiv(IF FLess(x, One) THEN One ELSE x, NatLimbs(IsClose_rel_tol_inv))
    IN  NLeq(NAbsDiff(x, One), tol)

\* np.sum(matriz, axis=0)
ColumnSums(matriz) ==
    [c \in 1..Cols(matriz) |-> FSum([r \in 1..Rows(matriz) |-> matriz[r][c]])]

\* the check of the column sums switched off
verificar_soma_desligada(matriz) == TRUE

\* the condition __verificar_soma_igual_a_1__ asserts
verificar_soma_igual_a_1(matriz) ==
    \A c \in 1..Cols(matriz) : IsCloseToOne(ColumnSums(matriz)[c])

(***************************************************************************)
(* update_membership.  The fuzziness mu is an integer here, one for which  *)
(* 2 / (mu - 1) is an integer, so that every power is an integer power.    *)
(* The code assigns u[i][k] in place, cell by cell, points in the outer    *)
(* loop and clusters in the inner one: an exception leaves the cells       *)
(* before it updated and the rest as they were.                            *)
(***************************************************************************)
NoError == "none"

\* expoente = fdiv(mpf(2), mu - mpf(1)), for mu # 1
expoente(mu) == 2 \div (mu - 1)

\* what evaluating power(fdiv(distances[k][i], distances[k][j]), expoente) raises
TermError(distances, k, i, j, e) ==
    IF i > Cols(distances) \/ j > Cols(distances) THEN "IndexError"
    ELSE IF IsZero(distances[k][j]) THEN "ZeroDivisionError"
    ELSE IF PowRaises(FDiv(distances[k][i], distances[k][j]), e)
         THEN "ZeroDivisionError"
    ELSE NoError

\* the first term of the sum over j that raises, 0 when none does
RECURSIVE FirstBadTerm(_, _, _, _, _, _)
FirstBadTerm(distances, k, i, j, n_clusters, e) ==
    IF j > n_clusters THEN 0
    ELSE IF TermError(distances, k, i, j, e) # NoError THEN j
    ELSE FirstBadTerm(distances, k, i, j + 1, n_clusters, e)

\* what computing and assigning u[i][k] raises
CellError(u, distances, k, i, n_clusters, e) ==
    LET j == FirstBadTerm(distances, k, i, 1, n_clusters, e)
    IN  IF j # 0 THEN TermError(distances, k, i, j, e)
        ELSE IF i > Rows(u) \/ k > Cols(u) THEN "IndexError"
        ELSE NoError

\* fdiv(1, sum over j of (distances[k][i] / distances[k][j]) ^ expoente)
CellValue(distances, k, i, n_clusters, e) ==
    FDiv(One, FSum([j \in 1..n_clusters |->
                      FPow(FDiv(distances[k][i], distances[k][j]), e)]))

\* the position of cell (k, i) in the order of the two loops
CellIndex(k, i, n_clusters) == (k - 1) * n_clusters + i

\* the first cell, in loop order from cell c, that raises; 0 when none does
RECURSIVE FirstBadCell(_, _, _, _, _, _)
FirstBadCell(u, distances, c, n_points, n_clusters, e) ==
    IF c > n_points * n_clusters THEN 0
    ELSE LET k == ((c - 1) \div n_clusters) + 1
             i == ((c - 1) % n_clusters) + 1
         IN  IF CellError(u, distances, k, i, n_clusters, e) # NoError THEN c
             ELSE FirstBadCell(u, distances, c + 1, n_points, n_clusters, e)

\* u after the loops have run up to (not including) cell `bad`, all of them
\* when bad = 0
MembershipAfterLoops(u, distances, n_points, n_clusters, e, bad) ==
    [i \in 1..Rows(u) |->
        [k \in 1..Cols(u) |->
            IF /\ i <= n_clusters
               /\ k <= n_points
               /\ (bad = 0 \/ CellIndex(k, i, n_clusters) < bad)
            THEN CellValue(distances, k, i, n_clusters, e)
            ELSE u[i][k]]]

\* [u |-> the matrix u as the call leaves it, error |-> what it raises]
update_membership(u, data, distances, n_clusters, mu) ==
    IF mu = 1 THEN [u |-> u, error |-> "ZeroDivisionError"]
    ELSE LET e   == expoente(mu)
             n   == Rows(data)
             bad == FirstBadCell(u, distances, 1, n, n_clusters, e)
             new == MembershipAfterLoops(u, distances, n, n_clusters, e, bad)
         IN  IF bad # 0
             THEN [u |-> new,
                   error |-> CellError(u, distances, ((bad - 1) \div n_clusters) + 1,
                                       ((bad - 1) % n_clusters) + 1, n_clusters, e)]
             ELSE [u |-> new,
                   error |-> IF verificar_soma_igual_a_1(new)
                             THEN NoError ELSE "AssertionError"]

(***************************************************************************)
(* update_centroids.  (i ** mu) * j multiplies a row of u by a column of   *)
(* data element by element under numpy's broadcasting: equal lengths, or   *)
(* one of the two of length 1; any other pair raises ValueError.           *)
(***************************************************************************)
Broadcastable(m, n) == m = n \/ m = 1 \/ n = 1

\* np.sum(i ** mu)
ClusterWeight(row, mu) == FSum([k \in 1..Len(row) |-> FPow(row[k], mu)])

\* np.sum((i ** mu) * j)
WeightedSum(row, col, mu) ==
    FSum([k \in 1..Max(Len(row), Len(col)) |->
            FMul(FPow(row[IF Len(row) = 1 THEN 1 ELSE k], mu),
                 col[IF Len(col) = 1 THEN 1 ELSE k])])

\* what computing the center of the cluster with membership row `row` raises
CenterError(row, n_points, mu) ==
    IF \E k \in 1..Len(row) : PowRaises(row[k], mu) THEN "ZeroDivisionError"
    ELSE IF ~Broadcastable(Len(row), n_points) THEN "ValueError"
    ELSE IF IsZero(ClusterWeight(row, mu)) THEN "ZeroDivisionError"
    ELSE NoError

RECURSIVE FirstBadCenter(_, _, _, _)
FirstBadCenter(u, i, n_points, mu) ==
    IF i > Rows(u) THEN 0
    ELSE IF CenterError(u[i], n_points, mu) # NoError THEN i
    ELSE FirstBadCenter(u, i + 1, n_points, mu)

\* [centers |-> the new center matrix, error |-> what the call raises]
update_centroids(u, data, mu) ==
    LET bad == FirstBadCenter(u, 1, Rows(data), mu)
        T   == Transpose(data)
    IN  IF bad # 0
        THEN [centers |-> <<>>, error |-> CenterError(u[bad], Rows(data), mu)]
        ELSE [centers |->
                [i \in 1..Rows(u) |->
                    [d \in 1..Cols(data) |->
                        FDiv(WeightedSum(u[i], T[d], mu), ClusterWeight(u[i], mu))]],
              error |-> NoError]

\* the objective J: sum over points i and centers j of
\* distance(center j, point i) * u[j][i] ** mu
mmg(u, data, centers, mu) ==
    FSum([i \in 1..Rows(data) |->
            FSum([j \in 1..Rows(centers) |->
                    FMul(calculate_euclidean_distance(centers[j], data[i]),
                         FPow(u[j][i], mu))])])

\* mmg reads u[j][i] for every center j and point i
MmgDefined(u, data, centers, mu) ==
    /\ Rows(u) >= Rows(centers)
    /\ Cols(u) >= Rows(data)
    /\ \A j \in 1..Rows(centers), i \in 1..Rows(data) : ~PowRaises(u[j][i], mu)

(***************************************************************************)
(* The caller's arrays hold decimal literals <<n, d>>, the number n / d as *)
(* str() prints it; None is the empty matrix.                              *)
(***************************************************************************)
None == <<>>

Ints(m) == [r \in 1..Len(m) |-> [c \in 1..Len(m[r]) |-> <<m[r][c], 1>>]]

Decimals(m, d) == [r \in 1..Len(m) |-> [c \in 1..Len(m[r]) |-> <<m[r][c], d>>]]

\* the data and the initial membership of tests/test_fcm.py
TestData == Ints(<< <<1, 3>>, <<2, 5>>, <<4, 8>>, <<7, 9>> >>)

TestMembership == Decimals(<< <<8, 7, 2, 1>>, <<2, 3, 8, 9>> >>, 10)

LineData == Ints(<< <<0>>, <<1>>, <<3>> >>)

PairData == Ints(<< <<0>>, <<2>> >>)

DataSets == {TestData, LineData, PairData}

Memberships ==
    { TestMembership,
      Decimals(<< <<0, 25, 100>>, <<100, 75, 0>> >>, 100),
      Decimals(<< <<5, 5, 5>>, <<5, 5, 5>> >>, 10),
      Ints(<< <<1, 1, 1>>, <<0, 0, 0>> >>),
      Ints(<< <<1, 0>>, <<0, 1>> >>),
      Decimals(<< <<50, 50, 50>>, <<25, 25, 25>>, <<25, 25, 25>> >>, 100),
      Decimals(<< <<5>>, <<5>> >>, 10) }

ClusterCounts == {2, 3}

MuValues == {0, 1, 2, 3}

EpsValues == { <<1, 100>>, <<1, 2>> }

MaxIter == 8

(***************************************************************************)
(* _gerar_inicializacao: uniform draws, each column divided by its sum,    *)
(* every entry converted to mpf.  The draws of the model: all entries      *)
(* equal, or one entry of the first column three times the others.        *)
(***************************************************************************)
UniformDraws(n_clusters, n_points) ==
    { [r \in 1..n_clusters |->
          [c \in 1..n_points |-> IF c = 1 /\ r = h THEN 3 ELSE 1]] :
      h \in 0..n_clusters }

RECURSIVE IntSumTo(_, _, _)
IntSumTo(m, c, r) == IF r = 0 THEN 0 ELSE IntSumTo(m, c, r - 1) + m[r][c]

\* u / np.sum(u, axis=0, keepdims=1), then mpf(x) of every entry
NormalizeColumns(m) ==
    [r \in 1..Rows(m) |->
        [c \in 1..Cols(m) |-> MpfStr(<<m[r][c], IntSumTo(m, c, Rows(m))>>)]]

gerar_inicializacao(n_clusters, n_points) ==
    { NormalizeColumns(m) : m \in UniformDraws(n_clusters, n_points) }

(***************************************************************************)
(* State.  n_clusters, mu, eps, data, u, centers are the attributes of the *)
(* FCM object; arg_data and arg_u the caller's arrays; u_copy the local of *)
(* fit; pc the position of fit; error the exception that ended it.         *)
(* iter counts the loop iterations begun, memberships and centroids the   *)
(* calls of the two updates that returned, J_seen holds the objective J    *)
(* read after the priming centroid update and at the end of each iteration.*)
(***************************************************************************)
VARIABLES n_clusters, mu, eps, arg_data, arg_u, data, u, centers, u_copy,
          pc, error, iter, memberships, centroids, J_seen

vars == <<n_clusters, mu, eps, arg_data, arg_u, data, u, centers, u_copy,
          pc, error, iter, memberships, centroids, J_seen>>

\* FCM(n_clusters, mu, eps) constructed, fit(arg_data, arg_u) about to run
Init ==
    /\ n_clusters \in ClusterCounts
    /\ mu \in MuValues
    /\ eps \in {MpfStr(e) : e \in EpsValues}
    /\ arg_data \in DataSets
    /\ arg_u \in Memberships \cup {None}
    /\ data = <<>>
    /\ u = <<>>
    /\ centers = <<>>
    /\ u_copy = <<>>
    /\ pc = "init"
    /\ error = NoError
    /\ iter = 0
    /\ memberships = 0
    /\ centroids = 0
    /\ J_seen = <<>>

\* fit, lines 164-167: the conversions and the initial membership
FitConvert ==
    /\ pc = "init"
    /\ data' = to_bigfloat(arg_data)
    /\ IF arg_u = None
       THEN u' \in gerar_inicializacao(n_clusters, Rows(arg_data))
       ELSE u' = to_bigfloat(arg_u)
    /\ pc' = "prime"
    /\ UNCHANGED <<n_clusters, mu, eps, arg_data, arg_u, centers, u_copy,
                   error, iter, memberships, centroids, J_seen>>

\* J_seen after a centroid update that gave the centers c
Observe(c) ==
    IF MmgDefined(u, data, c, mu) THEN Append(J_seen, mmg(u, data, c, mu)) ELSE J_seen

\* self._update_centroids(), leaving fit at `next` when it returns
CentroidStep(next) ==
    LET r == update_centroids(u, data, mu)
    IN  IF r.error = NoError
        THEN /\ centers' = r.centers
             /\ pc' = next
             /\ centroids' = centroids + 1
             /\ J_seen' = Observe(r.centers)
             /\ UNCHANGED error
        ELSE /\ pc' = "raised"
             /\ error' = r.error
             /\ UNCHANGED <<centers, centroids, J_seen>>

\* fit, line 168: the priming centroid update
Prime ==
    /\ pc = "prime"
    /\ CentroidStep("snapshot")
    /\ UNCHANGED <<n_clusters, mu, eps, arg_data, arg_u, data, u, u_copy,
                   iter, memberships>>

\* the snapshot taken in the first iteration only
SnapshotOnce ==
    /\ pc = "snapshot"
    /\ iter < MaxIter
    /\ u_copy' = IF iter = 0 THEN u ELSE u_copy
    /\ iter' = iter + 1
    /\ pc' = "membership"
    /\ UNCHANGED <<n_clusters, mu, eps, arg_data, arg_u, data, u, centers,
                   error, memberships, centroids, J_seen>>

\* fit, line 171: u_copy = self.u.copy()
Snapshot ==
    /\ pc = "snapshot"
    /\ iter < MaxIter
    /\ u_copy' = u
    /\ iter' = iter + 1
    /\ pc' = "membership"
    /\ UNCHANGED <<n_clusters, mu, eps, arg_data, arg_u, data, u, centers,
                   error, memberships, centroids, J_seen>>

\* the membership update working in place on the caller's array
UpdateMembershipAliased ==
    /\ pc = "membership"
    /\ LET r == update_membership(u, data, calculate_distances(data, centers),
                                  n_clusters, mu)
       IN  /\ u' = r.u
           /\ arg_u' = IF arg_u = None THEN arg_u ELSE r.u
           /\ error' = r.error
           /\ pc' = IF r.error = NoError THEN "centroids" ELSE "raised"
           /\ memberships' = IF r.error = NoError THEN memberships + 1
                                                  ELSE memberships
    /\ UNCHANGED <<n_clusters, mu, eps, arg_data, data, centers, u_copy,
                   iter, centroids, J_seen>>

\* fit, line 173: self._update_membership()
UpdateMembership ==
    /\ pc = "membership"
    /\ LET r == update_membership(u, data, calculate_distances(data, centers),
                                  n_clusters, mu)
       IN  /\ u' = r.u
           /\ error' = r.error
           /\ pc' = IF r.error = NoError THEN "centroids" ELSE "raised"
           /\ memberships' = IF r.error = NoError THEN memberships + 1
                                                  ELSE memberships
    /\ UNCHANGED <<n_clusters, mu, eps, arg_data, arg_u, data, centers, u_copy,
                   iter, centroids, J_seen>>

\* the centroid update of the loop left out
UpdateCentroidsSkipped ==
    /\ pc = "centroids"
    /\ pc' = "check"
    /\ UNCHANGED <<n_clusters, mu, eps, arg_data, arg_u, data, u, centers,
                   u_copy, error, iter, memberships, centroids, J_seen>>

\* fit, line 174: self._update_centroids()
UpdateCentroids ==
    /\ pc = "centroids"
    /\ CentroidStep("check")
    /\ UNCHANGED <<n_clusters, mu, eps, arg_data, arg_u, data, u, u_copy,
                   iter, memberships>>

\* fit, lines 177-178: if matrix_norm(u_copy, self.u) < self.eps: break
CheckConvergence ==
    /\ pc = "check"
    /\ pc' = IF FLess(matrix_norm(u_copy, u), eps) THEN "done" ELSE "snapshot"
    /\ UNCHANGED <<n_clusters, mu, eps, arg_data, arg_u, data, u, centers,
                   u_copy, error, iter, memberships, centroids, J_seen>>

Next ==
    \/ FitConvert
    \/ Prime
    \/ Snapshot
    \/ UpdateMembership
    \/ UpdateCentroids
    \/ CheckConvergence

Spec == Init /\ [][Next]_vars

\* fit has neither returned nor raised (nor reached the bound of the model):
\* its next statement can run.  Every statement of fit runs to its end or
\* raises, so this is when a step of Next is possible.
Running ==
    /\ pc \in {"init", "prime", "snapshot", "membership", "centroids", "check"}
    /\ pc = "snapshot" => iter < MaxIter

PcValues == {"init", "prime", "snapshot", "membership", "centroids", "check", "done", "raised"}

\* a step of the running fit; within Next, every step is one
Advance == Running /\ pc' \in PcValues \ {pc}

\* fit runs synchronously in the calling thread, with nothing to suspend it:
\* while it is running its next statement is executed
FairSpec == Spec /\ WF_pc(Advance)

(***************************************************************************)
(* Properties.                                                             *)
(***************************************************************************)
\* the supplied membership has as many columns as there are points and as
\* many rows as there are clusters (or none was supplied)
ShapesAgree ==
    arg_u = None \/ (Cols(arg_u) = Rows(arg_data) /\ Rows(arg_u) = n_clusters)

Tolerance == MpfStr(<<1, 1000000000>>)

\* every column of m sums to 1 within 1e-9
ColumnsSumToOne(m) ==
    \A c \in 1..Cols(m) : NLeq(NAbsDiff(ColumnSums(m)[c], One), Tolerance)

\* C1: after every call of update_membership that returned, hence on return
\* from fit, every column of u sums to 1 within 1e-9; and the assertion fails
\* only on a matrix with a column that does not.
C1_ColumnsSumToOne ==
    /\ (memberships >= 1 /\ pc # "raised") => ColumnsSumToOne(u)
    /\ error = "AssertionError" => ~ColumnsSumToOne(u)

\* fit has returned after two membership updates, over matching shapes
C1_Witness ==
    pc = "done" /\ memberships >= 2 /\ ShapesAgree /\ ColumnsSumToOne(u)

\* C2: an FCM with mu <= 1 is rejected with InvalidFuzziness before any
\* centroid or membership update runs.
C2_InvalidFuzzinessRejected ==
    mu <= 1 =>
        /\ centroids = 0
        /\ memberships = 0
        /\ pc \in {"init", "prime", "raised"}
        /\ pc = "raised" => error = "InvalidFuzziness"

\* C3: a membership update over a point k at distance 0 from a center i
\* returns, with u[i][k] = 1 and u[j][k] = 0 for every other center j.
C3_CoincidentPointBelongsToItsCenter ==
    [][(pc = "membership" /\ ShapesAgree /\ mu > 1) =>
         LET distances == calculate_distances(data, centers)
         IN  \A k \in 1..Rows(data), i \in 1..n_clusters :
                IsZero(distances[k][i]) =>
                    /\ pc' = "centroids"
                    /\ u'[i][k] = One
                    /\ \A j \in (1..n_clusters) \ {i} : u'[j][k] = Zero]_vars

\* C4: fit with a supplied membership of the wrong shape fails with
\* DimensionMismatch, runs no update on it and never returns.
C4_DimensionMismatchRejected ==
    ~ShapesAgree =>
        /\ centroids = 0
        /\ memberships = 0
        /\ pc \in {"init", "prime", "raised"}
        /\ pc = "raised" => error = "DimensionMismatch"

\* C5: a centroid update over a cluster of total weight zero fails with
\* DegenerateCluster.
C5_DegenerateClusterRaised ==
    [][(/\ pc \in {"prime", "centroids"}
        /\ Cols(u) = Rows(data)
        /\ mu > 1
        /\ \E i \in 1..Rows(u) : IsZero(ClusterWeight(u[i], mu))) =>
         (pc' = "raised" /\ error' = "DegenerateCluster")]_vars

JSlack == MpfStr(<<1, 1000000>>)

\* C6: with mu > 1 and eps > 0, the objective J read at the end of an
\* iteration is not larger than the one read before it (the priming update
\* included).  A rise of less than 1e-6, a million times the rounding of the
\* arithmetic here, is not counted.
C6_ObjectiveNonIncreasing ==
    (mu > 1 /\ ~IsZero(eps) /\ ShapesAgree) =>
        \A n \in 1..(Len(J_seen) - 1) :
            NLeq(J_seen[n + 1], FAdd(J_seen[n], JSlack))

\* whether the loop's test holds, in exact integers: the sum of the squared
\* differences is below eps squared
NormBelowEps ==
    LET sumsq == FSum([r \in 1..Rows(u) |->
                         FSum([c \in 1..Cols(u) |-> SqDiff(u_copy[r][c], u[r][c])])])
    IN  NLess(ShiftUp(sumsq, Limbs), NMul(eps, eps))

\* C7: u_copy is u as the iteration began and the update leaves it alone;
\* fit leaves the loop from the check exactly when the norm of u_copy - u is
\* below eps, and goes round again otherwise; once returned it takes no step.
C7_StopsWhenNormBelowEps ==
    [][/\ pc = "membership" => (u_copy = u /\ u_copy' = u_copy)
       /\ pc = "centroids" => u_copy' = u_copy
       /\ pc = "check" => /\ (pc' = "done") = NormBelowEps
                          /\ pc' \in {"done", "snapshot"}
                          /\ u' = u
       /\ pc # "done"]_vars

\* fit went round the loop at least twice and returned
C7_Witness == pc = "done" /\ iter >= 2 /\ NormBelowEps

\* the scenario of tests/test_fcm.py
TestScenario ==
    /\ arg_data = TestData
    /\ arg_u = TestMembership
    /\ n_clusters = 2
    /\ mu = 2
    /\ eps = MpfStr(<<1, 100>>)

\* C8: on the test scenario fit returns after finitely many iterations.
C8_TestScenarioTerminates ==
    (TestScenario /\ pc = "init") ~> (TestScenario /\ pc = "done")

C8_Witness == TestScenario /\ pc = "done" /\ iter = 2

\* C9: one centroid update primes the loop; each iteration runs a membership
\* update, then a centroid update, then the check; at the snapshot, at the
\* check and on return the centers are update_centroids of the current u.
C9_StepsInOrderCentersFresh ==
    /\ pc \in {"init", "prime"} => (centroids = 0 /\ memberships = 0 /\ iter = 0)
    /\ pc = "membership" => (memberships = iter - 1 /\ centroids = iter)
    /\ pc = "centroids" => (memberships = iter /\ centroids = iter)
    /\ pc \in {"snapshot", "check", "done"} =>
           (memberships = iter /\ centroids = iter + 1)
    /\ pc \in {"snapshot", "membership", "check", "done"} =>
           centers = update_centroids(u, data, mu).centers

\* at the check of the second iteration
C9_Witness == pc = "check" /\ iter = 2 /\ centroids = 3 /\ ShapesAgree

\* C10: no step of fit changes mu, eps, n_clusters or the caller's arrays;
\* data is set once, to a fresh conversion of the caller's, and then kept.
C10_FrameOfFit ==
    [][/\ mu' = mu
       /\ eps' = eps
       /\ n_clusters' = n_clusters
       /\ arg_data' = arg_data
       /\ arg_u' = arg_u
       /\ pc = "init" => data' = to_bigfloat(arg_data)
       /\ pc # "init" => data' = data]_vars

\* a returned fit that changed u and the centers in its loop
C10_Witness ==
    /\ pc = "done"
    /\ centroids >= 2
    /\ data = to_bigfloat(arg_data)
    /\ arg_u # None
    /\ u # to_bigfloat(arg_u)
====
